---- MODULE Spec2Model ----
(***************************************************************************)
(* Model of reddit_analyzer.py: FastRedditPersonaAnalyzer.                 *)
(*                                                                         *)
(* Texts are TLA+ strings; Len, SubSeq and \o work on them character by    *)
(* character, so keyword counting, lowercasing, stripping and the          *)
(* community pattern are computed as the Python code computes them.        *)
(* Floating-point weights (0.9 .. 1.3) are carried as tenths.              *)
(***************************************************************************)
EXTENDS Integers, Sequences, FiniteSets, TLC

(***************************************************************************)
(* String primitives (Python str methods used by the analyzer)             *)
(***************************************************************************)

CharAt(s, i) == SubSeq(s, i, i)

UpperAlpha == "ABCDEFGHIJKLMNOPQRSTUVWXYZ"
LowerAlpha == "abcdefghijklmnopqrstuvwxyz"
Digits == "0123456789"

InStr(c, alphabet) == \E i \in 1..Len(alphabet) : CharAt(alphabet, i) = c

\* str.lower() on one character
LowerChar(c) ==
    IF InStr(c, UpperAlpha)
    THEN CharAt(LowerAlpha, CHOOSE i \in 1..Len(UpperAlpha) : CharAt(UpperAlpha, i) = c)
    ELSE c

\* str.lower() over s[lo..hi], by halves
RECURSIVE LowerRange(_, _, _)
LowerRange(s, lo, hi) ==
    IF lo > hi THEN ""
    ELSE IF lo = hi THEN LowerChar(CharAt(s, lo))
    ELSE LET mid == (lo + hi) \div 2
         IN  LowerRange(s, lo, mid) \o LowerRange(s, mid + 1, hi)

\* str.lower()
Lower(s) == LowerRange(s, 1, Len(s))

IsSpace(c) == c \in {" ", "\n", "\t", "\r"}

RECURSIVE LStripIdx(_, _)
LStripIdx(s, i) ==
    IF i <= Len(s) /\ IsSpace(CharAt(s, i)) THEN LStripIdx(s, i + 1) ELSE i

RECURSIVE RStripIdx(_, _)
RStripIdx(s, j) ==
    IF j >= 1 /\ IsSpace(CharAt(s, j)) THEN RStripIdx(s, j - 1) ELSE j

\* str.strip()
Strip(s) == SubSeq(s, LStripIdx(s, 1), RStripIdx(s, Len(s)))

SetMin(S) == CHOOSE m \in S : \A n \in S : m <= n

\* positions at which kw occurs in text
Occurrences(text, kw) ==
    {i \in 1..(Len(text) - Len(kw) + 1) : SubSeq(text, i, i + Len(kw) - 1) = kw}

\* leftmost-first, non-overlapping selection among the occurrences at or after p
RECURSIVE CountFrom(_, _, _)
CountFrom(occ, n, p) ==
    LET rest == {i \in occ : i >= p}
    IN  IF rest = {} THEN 0 ELSE 1 + CountFrom(occ, n, SetMin(rest) + n)

\* str.count(kw): non-overlapping occurrences, scanning left to right
Count(text, kw) == CountFrom(Occurrences(text, kw), Len(kw), 1)

\* " ".join(texts[lo..hi]), by halves
RECURSIVE JoinRange(_, _, _)
JoinRange(texts, lo, hi) ==
    IF lo > hi THEN ""
    ELSE IF lo = hi THEN texts[lo]
    ELSE LET mid == (lo + hi) \div 2
         IN  JoinRange(texts, lo, mid) \o " " \o JoinRange(texts, mid + 1, hi)

\* " ".join(texts)
StrJoin(texts) == JoinRange(texts, 1, Len(texts))

RECURSIVE SumRange(_, _, _)
SumRange(s, lo, hi) ==
    IF lo > hi THEN 0
    ELSE IF lo = hi THEN s[lo]
    ELSE LET mid == (lo + hi) \div 2
         IN  SumRange(s, lo, mid) + SumRange(s, mid + 1, hi)

\* sum(...) over a sequence of numbers
Sum(s) == SumRange(s, 1, Len(s))

\* sum(text.count(keyword) for keyword in keywords)
KeywordHits(text, keywords) ==
    Sum([k \in 1..Len(keywords) |-> Count(text, keywords[k])])

Min(a, b) == IF a < b THEN a ELSE b
Max(a, b) == IF a > b THEN a ELSE b


(***************************************************************************)
(* Ordered mappings (Python dict keeps insertion order): sequences of      *)
(* <<key, value>> pairs with distinct keys.                                *)
(***************************************************************************)

Keys(d) == {d[i][1] : i \in 1..Len(d)}

HasKey(d, k) == \E i \in 1..Len(d) : d[i][1] = k

\* d[k] for a key that is present
Lookup(d, k) == d[CHOOSE i \in 1..Len(d) : d[i][1] = k][2]

\* d.get(k, default)
Get(d, k, default) == IF HasKey(d, k) THEN Lookup(d, k) ELSE default

\* d[k] = v: an existing key keeps its position, a new key goes last
Put(d, k, v) ==
    IF HasKey(d, k)
    THEN [i \in 1..Len(d) |-> IF d[i][1] = k THEN <<k, v>> ELSE d[i]]
    ELSE Append(d, <<k, v>>)

\* sorted(d.items(), key=lambda x: x[1], reverse=True): descending by value,
\* stable (items of equal value keep their order)
SortedByValueDesc(d) ==
    LET n == Len(d)
        rank(i) == Cardinality({j \in 1..n : d[j][2] > d[i][2]})
                   + Cardinality({j \in 1..n : j < i /\ d[j][2] = d[i][2]}) + 1
    IN  [k \in 1..n |-> d[CHOOSE i \in 1..n : rank(i) = k]]

\* s[:n]
Take(s, n) == SubSeq(s, 1, Min(n, Len(s)))

(***************************************************************************)
(* Trait scoring: _analyze_personality_fast                                *)
(***************************************************************************)

\* personality_indicators, in table order; weights in tenths (1.2 -> 12)
personality_indicators ==
    << [trait |-> "Analytical", weight10 |-> 12, keywords |->
          <<"analysis", "data", "research", "study", "evidence", "statistics",
            "logic", "rational", "objective", "fact">>],
       [trait |-> "Creative", weight10 |-> 11, keywords |->
          <<"art", "music", "design", "creative", "imagine", "beautiful",
            "inspiration", "original", "artistic", "aesthetic">>],
       [trait |-> "Social", weight10 |-> 10, keywords |->
          <<"friends", "people", "social", "community", "together", "group",
            "team", "collaborate", "meet", "party">>],
       [trait |-> "Technical", weight10 |-> 13, keywords |->
          <<"code", "programming", "software", "tech", "computer", "algorithm",
            "development", "system", "api", "database">>],
       [trait |-> "Intellectual", weight10 |-> 11, keywords |->
          <<"learn", "knowledge", "understand", "think", "philosophy", "science",
            "education", "academic", "theory", "concept">>],
       [trait |-> "Humorous", weight10 |-> 9, keywords |->
          <<"funny", "hilarious", "joke", "lol", "humor", "comedy", "laugh",
            "amusing", "witty", "sarcastic">>],
       [trait |-> "Helpful", weight10 |-> 10, keywords |->
          <<"help", "advice", "suggest", "recommend", "support", "assist",
            "guide", "solution", "answer", "explain">>] >>

\* score = hits * weight, in tenths
TraitScore10(hits, weight10) == hits * weight10

\* a threshold that lets a score of exactly 2 through
TraitEmittedAtThreshold(score10) == score10 >= 20

\* if score > 2
TraitEmitted(score10) == score10 > 20

\* score * 8 without the cap
TraitConfidenceUncapped(score10) == score10 * 8

\* min(score * 8, 100), in tenths of a percent point
TraitConfidence10(score10) == Min(score10 * 8, 1000)

\* score and confidence are Python floats.  hits * weight * 8 in IEEE-754
\* doubles differs from the exact product by a rounding error far below a
\* tenth; these are the <<hits, weight in tenths>> below the cap for which the
\* computed confidence lies above, respectively below, the exact one
RoundedUp ==
    {
     <<1, 9>>, <<2, 9>>, <<3, 9>>, <<4, 9>>, <<6, 9>>, <<8, 9>>, <<11, 9>>,
     <<12, 9>>, <<13, 9>>, <<1, 11>>, <<2, 11>>, <<3, 11>>, <<4, 11>>, <<6, 11>>,
     <<7, 11>>, <<8, 11>>, <<9, 11>>, <<11, 11>>, <<7, 12>>, <<1, 13>>, <<2, 13>>,
     <<3, 13>>, <<4, 13>>, <<6, 13>>, <<8, 13>>, <<9, 13>> }
RoundedDown ==
    {
     <<7, 9>>, <<9, 9>>, <<1, 12>>, <<2, 12>>, <<3, 12>>, <<4, 12>>, <<6, 12>>,
     <<8, 12>>, <<9, 12>>, <<7, 13>> }

\* the sign of (computed confidence - exact confidence); min(..., 100) is exact
Rounding(hits, weight10) ==
    IF hits * weight10 * 8 >= 1000 THEN 0
    ELSE IF <<hits, weight10>> \in RoundedUp THEN 1
    ELSE IF <<hits, weight10>> \in RoundedDown THEN -1
    ELSE 0

\* data["weight"] of a trait, in tenths
TraitWeight10(trait) ==
    personality_indicators[CHOOSE i \in 1..Len(personality_indicators) :
                              personality_indicators[i].trait = trait].weight10

\* the rounding of the confidence stored for an item <<trait, confidence>>:
\* below the cap the confidence is hits * weight * 8, at the cap it is exact
ItemRounding(item) ==
    IF item[2] >= 1000 THEN 0
    ELSE Rounding(item[2] \div (8 * TraitWeight10(item[1])), TraitWeight10(item[1]))

\* a[1] > b[1] on the floats of two items of the traits dict
ConfidenceGreater(a, b) ==
    a[2] > b[2] \/ (a[2] = b[2] /\ ItemRounding(a) > ItemRounding(b))

\* sorted(traits.items(), key=lambda x: x[1], reverse=True) on the floats:
\* descending, stable
SortedByConfidenceDesc(d) ==
    LET n == Len(d)
        rank(i) == Cardinality({j \in 1..n : ConfidenceGreater(d[j], d[i])})
                   + Cardinality({j \in 1..n : j < i /\ ~ConfidenceGreater(d[j], d[i])
                                                      /\ ~ConfidenceGreater(d[i], d[j])}) + 1
    IN  [k \in 1..n |-> d[CHOOSE i \in 1..n : rank(i) = k]]

\* the loop of _analyze_personality_fast over per-trait keyword hits:
\* hits[i] is sum(text.count(keyword)) for the i-th trait of the table
RECURSIVE TraitsFromHits(_, _, _)
TraitsFromHits(hits, i, traits) ==
    IF i > Len(personality_indicators) THEN traits
    ELSE LET data == personality_indicators[i]
             score10 == TraitScore10(hits[i], data.weight10)
         IN  TraitsFromHits(hits, i + 1,
                 IF TraitEmitted(score10)
                 THEN Put(traits, data.trait, TraitConfidence10(score10))
                 ELSE traits)

TraitHits(text) ==
    [i \in 1..Len(personality_indicators) |->
        KeywordHits(text, personality_indicators[i].keywords)]

\* _analyze_personality_fast(text, posts, comments): trait -> confidence
\* (tenths), in table order
AnalyzePersonalityFast(text) == TraitsFromHits(TraitHits(text), 1, <<>>)

(***************************************************************************)
(* Interest extraction: _extract_interests_fast                            *)
(***************************************************************************)

\* \w of the pattern r'r/(\w+)'
IsWordChar(c) == InStr(c, LowerAlpha) \/ InStr(c, UpperAlpha) \/ InStr(c, Digits) \/ c = "_"

\* last index of the run of word characters that starts at j
WordRunEnd(text, j) ==
    SetMin({k \in j..Len(text) : k = Len(text) \/ ~IsWordChar(CharAt(text, k + 1))})

\* positions where the pattern can match: "r/" followed by a word character
MarkerStarts(text) ==
    {i \in 1..(Len(text) - 2) :
        SubSeq(text, i, i + 1) = "r/" /\ IsWordChar(CharAt(text, i + 2))}

\* re.findall scans left to right; a match consumes "r/" and the whole run
RECURSIVE FindAllFrom(_, _, _)
FindAllFrom(text, starts, p) ==
    LET rest == {i \in starts : i >= p}
    IN  IF rest = {} THEN <<>>
        ELSE LET i == SetMin(rest)
                 e == WordRunEnd(text, i + 2)
             IN  <<SubSeq(text, i + 2, e)>> \o FindAllFrom(text, starts, e + 1)

\* re.findall(r'r/(\w+)', text)
FindSubreddits(text) == FindAllFrom(text, MarkerStarts(text), 1)

\* every match sets the entry to 3 instead of adding 3
RECURSIVE AddSubredditsOnce(_, _, _)
AddSubredditsOnce(subs, i, interests) ==
    IF i > Len(subs) THEN interests
    ELSE AddSubredditsOnce(subs, i + 1, Put(interests, "r/" \o subs[i], 3))

\* interests[f"r/{sub}"] += 3 for each match, on a defaultdict(int)
RECURSIVE AddSubreddits(_, _, _)
AddSubreddits(subs, i, interests) ==
    IF i > Len(subs) THEN interests
    ELSE LET label == "r/" \o subs[i]
         IN  AddSubreddits(subs, i + 1, Put(interests, label, Get(interests, label, 0) + 3))

\* topic_keywords, in table order
topic_keywords ==
    << [topic |-> "Gaming", keywords |->
          <<"game", "gaming", "play", "player", "steam", "console", "pc", "xbox",
            "playstation", "nintendo">>],
       [topic |-> "Technology", keywords |->
          <<"tech", "software", "app", "device", "digital", "internet", "mobile",
            "computer", "ai", "ml">>],
       [topic |-> "Sports", keywords |->
          <<"sport", "team", "player", "game", "season", "match", "football",
            "basketball", "soccer", "baseball">>],
       [topic |-> "Entertainment", keywords |->
          <<"movie", "show", "tv", "film", "series", "watch", "netflix", "youtube",
            "music", "band">>],
       [topic |-> "Finance", keywords |->
          <<"money", "invest", "stock", "crypto", "bitcoin", "finance", "trading",
            "market", "economy", "bank">>],
       [topic |-> "Health & Fitness", keywords |->
          <<"health", "fitness", "exercise", "diet", "medical", "doctor", "workout",
            "gym", "nutrition", "wellness">>],
       [topic |-> "Education", keywords |->
          <<"learn", "study", "school", "university", "education", "course",
            "student", "teacher", "academic", "knowledge">>],
       [topic |-> "Travel", keywords |->
          <<"travel", "trip", "vacation", "country", "city", "hotel", "flight",
            "tourism", "visit", "explore">>],
       [topic |-> "Food", keywords |->
          <<"food", "cook", "recipe", "restaurant", "eat", "meal", "cuisine", "chef",
            "kitchen", "dish">>],
       [topic |-> "Art & Design", keywords |->
          <<"art", "design", "draw", "paint", "creative", "artist", "gallery",
            "photography", "graphic", "visual">>] >>

\* the topic loop: if score > 2: interests[topic] = score * 2
RECURSIVE AddTopics(_, _, _)
AddTopics(hits, i, interests) ==
    IF i > Len(topic_keywords) THEN interests
    ELSE AddTopics(hits, i + 1,
             IF hits[i] > 2
             THEN Put(interests, topic_keywords[i].topic, hits[i] * 2)
             ELSE interests)

TopicHits(text) ==
    [i \in 1..Len(topic_keywords) |-> KeywordHits(text, topic_keywords[i].keywords)]

\* the mapping before the final sort: communities by first occurrence, then topics
InterestsUnsorted(subs, hits) == AddTopics(hits, 1, AddSubreddits(subs, 1, <<>>))

\* the sorted mapping without the [:15] slice
RankInterestsUncut(interests) == SortedByValueDesc(interests)

\* dict(sorted(interests.items(), key=lambda x: x[1], reverse=True)[:15])
RankInterests(interests) == Take(SortedByValueDesc(interests), 15)

\* _extract_interests_fast(text, all_texts)
ExtractInterestsFast(text) ==
    RankInterests(InterestsUnsorted(FindSubreddits(text), TopicHits(text)))

(***************************************************************************)
(* Content items are (text, url) tuples; posts and comments are sequences  *)
(* of them.                                                                *)
(***************************************************************************)

\* [text for text, _ in items]
Texts(items) == [i \in 1..Len(items) |-> items[i][1]]

\* [len(text) for text, _ in items]
Lengths(items) == [i \in 1..Len(items) |-> Len(items[i][1])]

\* a Python number num / den, kept exact (the int 0 is Ratio(0, 1))
Ratio(num, den) == [num |-> num, den |-> den]

\* an f-string field "{value:.<digits>f}"
Fixed(value, digits) == [value |-> value, digits |-> digits]

(***************************************************************************)
(* Communication analysis: _analyze_communication_fast and its helpers     *)
(***************************************************************************)

\* _calculate_verbosity(texts)
CalculateVerbosity(texts) ==
    IF Len(texts) = 0 THEN "Unknown"
    ELSE LET total == Sum([i \in 1..Len(texts) |-> Len(texts[i])])
             n == Len(texts)
         IN  IF total > 500 * n THEN "Highly Verbose"
             ELSE IF total > 200 * n THEN "Verbose"
             ELSE IF total > 100 * n THEN "Moderate"
             ELSE "Concise"

\* "Content Creator" also when the counts are equal
DetermineEngagementStyleInclusive(posts, comments) ==
    IF Len(comments) > Len(posts) * 2 THEN "Discussion-focused"
    ELSE IF Len(posts) >= Len(comments) THEN "Content Creator"
    ELSE "Balanced Participant"

\* _determine_engagement_style(posts, comments)
DetermineEngagementStyle(posts, comments) ==
    IF Len(comments) > Len(posts) * 2 THEN "Discussion-focused"
    ELSE IF Len(posts) > Len(comments) THEN "Content Creator"
    ELSE "Balanced Participant"

positive_words ==
    <<"good", "great", "awesome", "amazing", "excellent", "fantastic", "wonderful",
      "perfect", "love", "like">>

negative_words ==
    <<"bad", "terrible", "awful", "hate", "horrible", "worst", "stupid", "annoying",
      "frustrating", "disappointed">>

\* _analyze_sentiment_basic(texts); x > y * 1.5 is 2x > 3y
AnalyzeSentimentBasic(texts) ==
    IF Len(texts) = 0 THEN "Neutral"
    ELSE LET combined_text == Lower(StrJoin(texts))
             positive_score == KeywordHits(combined_text, positive_words)
             negative_score == KeywordHits(combined_text, negative_words)
         IN  IF 2 * positive_score > 3 * negative_score THEN "Generally Positive"
             ELSE IF 2 * negative_score > 3 * positive_score THEN "Generally Critical"
             ELSE "Balanced"

\* _analyze_communication_fast(posts, comments): {} when there is no item
AnalyzeCommunicationFast(posts, comments) ==
    IF Len(posts) = 0 /\ Len(comments) = 0 THEN <<>>
    ELSE LET post_lengths == IF Len(posts) > 0 THEN Lengths(posts) ELSE <<0>>
             comment_lengths == IF Len(comments) > 0 THEN Lengths(comments) ELSE <<0>>
             all_texts == Texts(posts \o comments)
         IN  << <<"avg_post_length", Ratio(Sum(post_lengths), Max(Len(post_lengths), 1))>>,
                <<"avg_comment_length",
                  Ratio(Sum(comment_lengths), Max(Len(comment_lengths), 1))>>,
                <<"total_activity", Len(posts) + Len(comments)>>,
                <<"post_to_comment_ratio", Ratio(Len(posts), Max(Len(comments), 1))>>,
                <<"verbosity", CalculateVerbosity(all_texts)>>,
                <<"engagement_style", DetermineEngagementStyle(posts, comments)>>,
                <<"sentiment_tendency", AnalyzeSentimentBasic(all_texts)>> >>

(***************************************************************************)
(* Behavioral classification: _extract_behavioral_patterns and helpers     *)
(***************************************************************************)

\* _categorize_engagement(total_activity)
CategorizeEngagement(total_activity) ==
    IF total_activity > 80 THEN "Highly Active"
    ELSE IF total_activity > 40 THEN "Active"
    ELSE IF total_activity > 15 THEN "Moderate"
    ELSE "Casual"

\* the labels of _categorize_engagement, lowest band first
EngagementBands == <<"Casual", "Moderate", "Active", "Highly Active">>

\* _analyze_discussion_style(comments)
AnalyzeDiscussionStyle(comments) ==
    IF Len(comments) = 0 THEN "Non-participant"
    ELSE LET total == Sum(Lengths(comments))
             n == Len(comments)
         IN  IF total > 300 * n THEN "Detailed Contributor"
             ELSE IF total > 100 * n THEN "Thoughtful Participant"
             ELSE "Brief Responder"

\* _categorize_activity_level(total_activity)
CategorizeActivityLevel(total_activity) ==
    IF total_activity > 100 THEN "Power User"
    ELSE IF total_activity > 50 THEN "Regular User"
    ELSE IF total_activity > 20 THEN "Occasional User"
    ELSE "Infrequent User"

\* the two ratio thresholds exchanged
AnalyzeInteractionPatternSwapped(posts, comments) ==
    IF Len(posts) > Len(comments) * 3 THEN "Content Creator"
    ELSE IF Len(comments) > Len(posts) * 2 THEN "Community Participant"
    ELSE "Balanced Contributor"

\* _analyze_interaction_pattern(posts, comments)
AnalyzeInteractionPattern(posts, comments) ==
    IF Len(posts) > Len(comments) * 2 THEN "Content Creator"
    ELSE IF Len(comments) > Len(posts) * 3 THEN "Community Participant"
    ELSE "Balanced Contributor"

\* the conditional expression for "content_preference"
ContentPreference(posts, comments) ==
    IF Len(comments) > Len(posts) THEN "Comments"
    ELSE IF Len(posts) > Len(comments) THEN "Posts"
    ELSE "Balanced"

\* _extract_behavioral_patterns(posts, comments)
ExtractBehavioralPatterns(posts, comments) ==
    LET total_activity == Len(posts) + Len(comments)
    IN  << <<"engagement_level", CategorizeEngagement(total_activity)>>,
           <<"content_preference", ContentPreference(posts, comments)>>,
           <<"discussion_style", AnalyzeDiscussionStyle(comments)>>,
           <<"activity_level", CategorizeActivityLevel(total_activity)>>,
           <<"interaction_pattern", AnalyzeInteractionPattern(posts, comments)>> >>

(***************************************************************************)
(* Report synthesis: _format_traits, _format_interests,                    *)
(* _generate_quick_insights, _generate_fast_report.  A report is a record: *)
(* the header fields and the sequence of titled sections of the f-string;  *)
(* a section body is a sequence of lines.                                  *)
(***************************************************************************)

NoTraitsText == "No significant personality traits detected from available data"
NoInterestsText == "No specific interests detected from available data"
NoInsightsText == "Analysis complete - see detailed sections above"

\* a line that only says that nothing was detected
Fallback(text) == [fallback |-> text]

\* _format_traits(traits): one line per trait, descending confidence;
\* bar_length = int(confidence / 10)
FormatTraits(traits) ==
    IF Len(traits) = 0 THEN <<Fallback(NoTraitsText)>>
    ELSE LET sorted == SortedByConfidenceDesc(traits)
         IN  [i \in 1..Len(sorted) |->
                [trait |-> sorted[i][1],
                 bar_length |-> sorted[i][2] \div 100,
                 confidence |-> Fixed(Ratio(sorted[i][2], 10), 1)]]

\* max(interests.values())
MaxValue(d) == CHOOSE m \in {d[i][2] : i \in 1..Len(d)} : \A i \in 1..Len(d) : d[i][2] <= m

\* _format_interests(interests): the first 10, relevance = int(score / max * 5)
FormatInterests(interests) ==
    IF Len(interests) = 0 THEN <<Fallback(NoInterestsText)>>
    ELSE LET max_score == MaxValue(interests)
             shown == Take(interests, 10)
         IN  [i \in 1..Len(shown) |->
                [interest |-> shown[i][1],
                 relevance |-> (shown[i][2] * 5) \div max_score,
                 score |-> shown[i][2]]]

\* max(traits.items(), key=lambda x: x[1]): the first item of maximal value
TopTrait(traits) ==
    traits[SetMin({i \in 1..Len(traits) :
                      \A j \in 1..Len(traits) : ~ConfidenceGreater(traits[j], traits[i])})]

\* _generate_quick_insights(traits, interests, communication, patterns)
GenerateQuickInsights(traits, interests, communication, patterns) ==
    LET total_activity == Get(communication, "total_activity", 0)
        verbosity == Get(communication, "verbosity", "Unknown")
        engagement == Get(patterns, "engagement_level", "Unknown")
        insights ==
            (IF Len(traits) > 0
             THEN <<[insight |-> "Primary personality trait", value |-> TopTrait(traits)[1],
                     confidence |-> Fixed(Ratio(TopTrait(traits)[2], 10), 1)]>>
             ELSE <<>>)
            \o <<[insight |-> IF total_activity > 50 THEN "High activity user"
                              ELSE IF total_activity > 20 THEN "Moderate activity user"
                              ELSE "Low activity user",
                  value |-> total_activity]>>
            \o (IF verbosity # "Unknown"
                THEN <<[insight |-> "Communication style", value |-> verbosity]>>
                ELSE <<>>)
            \o (IF Len(interests) > 0
                THEN <<[insight |-> "Primary interest area", value |-> interests[1][1]]>>
                ELSE <<>>)
            \o (IF engagement # "Unknown"
                THEN <<[insight |-> "User engagement level", value |-> engagement]>>
                ELSE <<>>)
    IN  IF Len(insights) > 0 THEN insights ELSE <<Fallback(NoInsightsText)>>

\* the "COMMUNICATION STYLE" lines: communication.get(key, default)
CommunicationLines(communication) ==
    << [label |-> "Average Post Length",
        value |-> Fixed(Get(communication, "avg_post_length", Ratio(0, 1)), 0)],
       [label |-> "Average Comment Length",
        value |-> Fixed(Get(communication, "avg_comment_length", Ratio(0, 1)), 0)],
       [label |-> "Total Activity", value |-> Get(communication, "total_activity", 0)],
       [label |-> "Post-to-Comment Ratio",
        value |-> Fixed(Get(communication, "post_to_comment_ratio", Ratio(0, 1)), 2)],
       [label |-> "Verbosity Level", value |-> Get(communication, "verbosity", "Unknown")],
       [label |-> "Engagement Style",
        value |-> Get(communication, "engagement_style", "Unknown")],
       [label |-> "Sentiment Tendency",
        value |-> Get(communication, "sentiment_tendency", "Unknown")] >>

\* the "BEHAVIORAL PATTERNS" lines: patterns.get(key, 'Unknown')
BehavioralLines(patterns) ==
    << [label |-> "# Continuing from where the code cut off...", value |-> ""],
       [label |-> "Engagement Level", value |-> Get(patterns, "engagement_level", "Unknown")],
       [label |-> "Content Preference",
        value |-> Get(patterns, "content_preference", "Unknown")],
       [label |-> "Discussion Style", value |-> Get(patterns, "discussion_style", "Unknown")],
       [label |-> "Activity Level", value |-> Get(patterns, "activity_level", "Unknown")],
       [label |-> "Interaction Pattern",
        value |-> Get(patterns, "interaction_pattern", "Unknown")] >>

\* the "PERFORMANCE METRICS" lines: read from self.stats
PerformanceLines(st) ==
    << [label |-> "Cache Hits", value |-> st.cache_hits],
       [label |-> "Processing Time", value |-> Fixed(st.analysis_time, 2)],
       [label |-> "Engine", value |-> "Rule-based Multi-Algorithm Analysis"],
       [label |-> "Accuracy", value |-> "High (based on activity patterns)"] >>

PrivacyLines ==
    << "All data analyzed locally - no external AI APIs used",
       "No personal information stored or transmitted",
       "Analysis based only on public Reddit activity",
       "Results generated using secure, open-source algorithms" >>

\* the titled sections of the report template, in order
ReportSections(traits, interests, communication, patterns, st) ==
    << [title |-> "PERSONALITY TRAITS", body |-> FormatTraits(traits)],
       [title |-> "INTERESTS & COMMUNITIES", body |-> FormatInterests(interests)],
       [title |-> "COMMUNICATION STYLE", body |-> CommunicationLines(communication)],
       [title |-> "BEHAVIORAL PATTERNS", body |-> BehavioralLines(patterns)],
       [title |-> "QUICK INSIGHTS",
        body |-> GenerateQuickInsights(traits, interests, communication, patterns)],
       [title |-> "PERFORMANCE METRICS", body |-> PerformanceLines(st)],
       [title |-> "PRIVACY & SECURITY", body |-> PrivacyLines] >>

\* _generate_fast_report(username, traits, interests, communication, patterns,
\* posts, comments), reading self.stats and the clock (datetime.now())
GenerateFastReport(username, traits, interests, communication, patterns, posts, comments, st, clock) ==
    [title |-> "REDDIT PERSONA ANALYSIS REPORT",
     user |-> username,
     data_points |-> [posts |-> Len(posts), comments |-> Len(comments)],
     generated |-> clock,
     sections |-> ReportSections(traits, interests, communication, patterns, st)]

\* combined_text = " ".join(all_texts).lower()
CombinedText(posts, comments) == Lower(StrJoin(Texts(posts \o comments)))

\* the four profiles ultra_fast_analysis computes from (posts, comments)
Profiles(posts, comments) ==
    LET combined_text == CombinedText(posts, comments)
    IN  [traits |-> AnalyzePersonalityFast(combined_text),
         interests |-> ExtractInterestsFast(combined_text),
         communication |-> AnalyzeCommunicationFast(posts, comments),
         patterns |-> ExtractBehavioralPatterns(posts, comments)]

\* ultra_fast_analysis(posts, comments, username)
UltraFastAnalysis(posts, comments, username, st, clock) ==
    LET pr == Profiles(posts, comments)
    IN  GenerateFastReport(username, pr.traits, pr.interests, pr.communication,
                           pr.patterns, posts, comments, st, clock)

(***************************************************************************)
(* Python values                                                           *)
(***************************************************************************)

\* None, and a value that is not None
NoneVal == [none |-> TRUE]
Some(v) == [none |-> FALSE, val |-> v]
IsNone(o) == o.none

\* str(n) for n >= 0
RECURSIVE ToStr(_)
ToStr(n) == IF n < 10 THEN CharAt(Digits, n + 1)
            ELSE ToStr(n \div 10) \o CharAt(Digits, (n % 10) + 1)

(***************************************************************************)
(* The remote platform (praw): which accounts exist and what their         *)
(* listings hold, newest first.  The analyzer only reads it.  "kim_1" has   *)
(* nothing longer than 10 characters; "ghost" does not exist.               *)
(***************************************************************************)

ExistingUsers == {"kim", "kim_1"}
Usernames == ExistingUsers \cup {"ghost"}

\* user.submissions.new(): raw submissions
RemoteSubmissions(u) ==
    IF u = "kim"
    THEN << [title |-> "Go", selftext |-> "I love data r/golang", permalink |-> "/r/go/1"] >>
    ELSE IF u = "kim_1"
    THEN << [title |-> "Hi", selftext |-> "too short", permalink |-> "/r/go/2"] >>
    ELSE <<>>

\* user.comments.new(): raw comments
RemoteComments(u) ==
    IF u = "kim"
    THEN << [body |-> "Great data analysis", permalink |-> "/c/1"],
            [body |-> "  r/rust fact art \n", permalink |-> "/c/2"] >>
    ELSE IF u = "kim_1"
    THEN << [body |-> "lol funny", permalink |-> "/c/3"] >>
    ELSE <<>>

\* a listing cut to its first `limit` entries
Limited(listing, limit) == Take(listing, limit)

(***************************************************************************)
(* The bounds of the model                                                 *)
(***************************************************************************)

\* calls of analyze_user / parallel_scrape_user_data in one run
MaxCalls == 3
\* exceptions the platform raises in one run (an existing account's `user.id`
\* failing, a listing failing during its iteration)
MaxErrors == 1

\* the default post_limit / comment_limit of parallel_scrape_user_data
DefaultLimit == 100

\* the arguments of the direct calls of parallel_scrape_user_data
ScrapeArgs == {<<"kim", DefaultLimit, 1>>}

(***************************************************************************)
(* State                                                                   *)
(***************************************************************************)

VARIABLES
    config,       \* self.config: CACHE_ENABLED
    cache,        \* self.cache: cache_key -> (posts, comments)
    stats,        \* self.stats
    now,          \* the clock read by time.time() / datetime.now()
    errors,       \* history: exceptions the platform has raised
    pc,           \* "idle", or "fetching" while the two futures are awaited
    cur,          \* the call in progress
    ptask,        \* the _scrape_posts task: pc, idx (entries iterated), buf, raised
    ctask,        \* the _scrape_comments task
    last,         \* what the last completed call did and returned
    stored,       \* history: (username, post_limit, comment_limit) -> pair stored
    firstReport,  \* history: analysed (username, posts, comments) -> first report
    calls,        \* history: number of calls made
    fin,          \* the (posts, comments) a function of the pipeline is applied to
    fout          \* the function applied and what it returned

vars == <<config, cache, stats, now, errors, pc, cur, ptask, ctask, last, stored, firstReport, calls,
          fin, fout>>

NoTask == [pc |-> "none", idx |-> 0, buf |-> <<>>, raised |-> FALSE]
QueuedTask == [pc |-> "queued", idx |-> 0, buf |-> <<>>, raised |-> FALSE]

NoCall == [op |-> "none", username |-> "", post_limit |-> 0, comment_limit |-> 0]

NoOutcome ==
    [op |-> "none", username |-> "", post_limit |-> 0, comment_limit |-> 0,
     hit |-> FALSE, fetched |-> FALSE, ptask |-> NoTask, ctask |-> NoTask,
     result |-> <<NoneVal, NoneVal>>, analysed |-> FALSE, report |-> NoneVal]

NoInput == [posts |-> <<>>, comments |-> <<>>]
NoOutput == [fn |-> "none"]

\* the analyzer after __init__
Constructed ==
    /\ cache = <<>>
    /\ stats = [total_posts |-> 0, total_comments |-> 0, analysis_time |-> 0,
                start_time |-> NoneVal, cache_hits |-> 0]
    /\ now = 0
    /\ errors = 0
    /\ pc = "idle"
    /\ cur = NoCall
    /\ ptask = NoTask
    /\ ctask = NoTask
    /\ last = NoOutcome
    /\ stored = <<>>
    /\ firstReport = <<>>
    /\ calls = 0

Init ==
    /\ config \in [CACHE_ENABLED : BOOLEAN]
    /\ Constructed
    /\ fin = NoInput
    /\ fout = NoOutput

(***************************************************************************)
(* parallel_scrape_user_data                                               *)
(***************************************************************************)

\* a key that leaves the comment limit out
CacheKeyWithoutCommentLimit(username, post_limit, comment_limit) ==
    username \o "_" \o ToStr(post_limit)

\* cache_key = f"{username}_{post_limit}_{comment_limit}"
CacheKey(username, post_limit, comment_limit) ==
    username \o "_" \o ToStr(post_limit) \o "_" \o ToStr(comment_limit)

\* f[k] = v on a function used as a dict
DictPut(f, k, v) == [x \in DOMAIN f \cup {k} |-> IF x = k THEN v ELSE f[x]]

\* self.config['CACHE_ENABLED'] and cache_key in self.cache
CacheHit(key) == config.CACHE_ENABLED /\ key \in DOMAIN cache

\* whether the platform may raise one more exception
MayRaise == IF errors < MaxErrors THEN {FALSE, TRUE} ELSE {FALSE}

\* whether the existence test `user.id` raises: always for an account that is
\* missing or suspended, possibly for any account (network, auth)
UserIdRaises(username) ==
    IF username \in ExistingUsers THEN MayRaise ELSE {TRUE}

\* the qualifying item of one submission, or none (_scrape_posts loop body)
PostItems(submission) ==
    IF submission.selftext # "" /\ Len(submission.selftext) > 10
    THEN << <<Strip("Title: " \o submission.title \o "\nBody: " \o submission.selftext),
              "https://www.reddit.com" \o submission.permalink>> >>
    ELSE <<>>

\* the qualifying item of one comment, or none (_scrape_comments loop body)
CommentItems(comment) ==
    IF Len(comment.body) > 10
    THEN << <<Strip(comment.body), "https://www.reddit.com" \o comment.permalink>> >>
    ELSE <<>>

\* the list _scrape_posts has built after k entries of the listing
RECURSIVE PostsAfter(_, _)
PostsAfter(listing, k) ==
    IF k = 0 THEN <<>> ELSE PostsAfter(listing, k - 1) \o PostItems(listing[k])

\* the list _scrape_comments has built after k entries of the listing
RECURSIVE CommentsAfter(_, _)
CommentsAfter(listing, k) ==
    IF k = 0 THEN <<>> ELSE CommentsAfter(listing, k - 1) \o CommentItems(listing[k])

\* an except clause that discards the list built so far
OnStreamErrorDiscard(task) == [task EXCEPT !.pc = "done", !.raised = TRUE, !.buf = <<>>]

\* the except clause of _scrape_posts / _scrape_comments: the warning is
\* printed and the list built so far is returned
OnStreamError(task) == [task EXCEPT !.pc = "done", !.raised = TRUE]

\* one iteration of a scraping loop over `listing`: the next entry is fetched
\* (which may raise) and appended if it qualifies; the loop ends after the last
StreamStep(task, listing, items, raises) ==
    IF raises THEN OnStreamError(task)
    ELSE IF task.idx < Len(listing)
    THEN [task EXCEPT !.pc = "running", !.idx = task.idx + 1,
                      !.buf = task.buf \o items]
    ELSE [task EXCEPT !.pc = "done"]

\* A submitted task starts at once when MAX_WORKERS >= 2.  With one worker the
\* comments task starts when the posts task is done: one of the interleavings
\* of the two-worker pool, so the steps below cover both configurations.
\* a step of the _scrape_posts task
PostsTaskStep ==
    /\ pc = "fetching"
    /\ ptask.pc \in {"queued", "running"}
    /\ \E raises \in MayRaise :
         LET listing == Limited(RemoteSubmissions(cur.username), cur.post_limit)
             items == IF ptask.idx < Len(listing)
                      THEN PostItems(listing[ptask.idx + 1]) ELSE <<>>
         IN  /\ ptask' = StreamStep(ptask, listing, items, raises)
             /\ errors' = IF raises THEN errors + 1 ELSE errors
    /\ UNCHANGED <<config, cache, stats, now, pc, cur, ctask, last, stored,
                   firstReport, calls, fin, fout>>

\* a step of the _scrape_comments task
CommentsTaskStep ==
    /\ pc = "fetching"
    /\ ctask.pc \in {"queued", "running"}
    /\ \E raises \in MayRaise :
         LET listing == Limited(RemoteComments(cur.username), cur.comment_limit)
             items == IF ctask.idx < Len(listing)
                      THEN CommentItems(listing[ctask.idx + 1]) ELSE <<>>
         IN  /\ ctask' = StreamStep(ctask, listing, items, raises)
             /\ errors' = IF raises THEN errors + 1 ELSE errors
    /\ UNCHANGED <<config, cache, stats, now, pc, cur, ptask, last, stored,
                   firstReport, calls, fin, fout>>

\* only the posts future is awaited
JoinOnPostsOnly == ptask.pc = "done"

\* post_future.result() and comment_future.result() have both returned
JoinReady == ptask.pc = "done" /\ ctask.pc = "done"

\* result = (posts, comments)
FetchResult == <<Some(ptask.buf), Some(ctask.buf)>>

\* self.stats after a fetch
StatsAfterFetch(st, posts, comments) ==
    [st EXCEPT !.total_posts = Len(posts), !.total_comments = Len(comments)]

\* if self.config['CACHE_ENABLED']: self.cache[cache_key] = result
CacheAfterFetch(c, key, result) ==
    IF config.CACHE_ENABLED THEN DictPut(c, key, result) ELSE c

(***************************************************************************)
(* analyze_user                                                            *)
(***************************************************************************)

\* if posts is None and comments is None: return None
NoData(result) == IsNone(result[1]) /\ IsNone(result[2])

\* every posts list and comments list a fetch of the remote listings can return
FetchablePosts ==
    UNION {{PostsAfter(RemoteSubmissions(u), k) : k \in 0..Len(RemoteSubmissions(u))} :
              u \in ExistingUsers}
FetchableComments ==
    UNION {{CommentsAfter(RemoteComments(u), k) : k \in 0..Len(RemoteComments(u))} :
              u \in ExistingUsers}

\* Profiles is a pure function of (posts, comments): its values over the
\* fetchable lists, computed once (@@ makes the table explicit)
ProfilesTable ==
    [input \in FetchablePosts \X FetchableComments |-> Profiles(input[1], input[2])]
        @@ <<>>

\* ultra_fast_analysis(posts, comments, username) on fetched lists
AnalyseFetched(posts, comments, username, st, clock) ==
    LET pr == ProfilesTable[<<posts, comments>>]
    IN  GenerateFastReport(username, pr.traits, pr.interests, pr.communication,
                           pr.patterns, posts, comments, st, clock)

\* the outcome of a call that returns `result`; analyze_user goes on to the
\* analysis unless NoData
Outcome(call, hit, fetched, result, st) ==
    LET analyse == call.op = "analyze_user" /\ ~NoData(result)
    IN  [op |-> call.op, username |-> call.username,
         post_limit |-> call.post_limit, comment_limit |-> call.comment_limit,
         hit |-> hit, fetched |-> fetched,
         ptask |-> IF fetched THEN ptask ELSE NoTask,
         ctask |-> IF fetched THEN ctask ELSE NoTask,
         result |-> result,
         analysed |-> analyse,
         report |-> IF analyse
                    THEN Some(AnalyseFetched(result[1].val, result[2].val,
                                             call.username, st, now))
                    ELSE NoneVal]

\* the time an analysis takes, in clock ticks
AnalysisTicks == 1

\* self.stats['analysis_time'] = time.time() - analysis_start
StatsAfterAnalysis(st, out) ==
    IF out.analysed THEN [st EXCEPT !.analysis_time = AnalysisTicks] ELSE st

\* history: the first report made for each analysed input
RecordReport(hist, out) ==
    IF out.analysed
    THEN LET input == <<out.username, out.result[1].val, out.result[2].val>>
         IN  IF input \in DOMAIN hist THEN hist ELSE DictPut(hist, input, out.report.val)
    ELSE hist

\* the call returns: everything after parallel_scrape_user_data has produced
\* `result` (for analyze_user: the analysis, the report, the timing)
Return(call, hit, fetched, result, st) ==
    LET out == Outcome(call, hit, fetched, result, st)
    IN  /\ last' = out
        /\ stats' = StatsAfterAnalysis(st, out)
        /\ firstReport' = RecordReport(firstReport, out)
        /\ now' = IF out.analysed THEN now + AnalysisTicks ELSE now

\* the entry of parallel_scrape_user_data for `call`, with self.stats = st:
\* a cache hit returns the cached pair; a failed existence test returns
\* (None, None); otherwise both tasks are submitted
Enter(call, st) ==
    LET key == CacheKey(call.username, call.post_limit, call.comment_limit)
    IN  /\ calls < MaxCalls
        /\ pc = "idle"
        /\ calls' = calls + 1
        /\ UNCHANGED <<fin, fout>>
        /\ IF CacheHit(key)
           THEN /\ Return(call, TRUE, FALSE, cache[key],
                          [st EXCEPT !.cache_hits = st.cache_hits + 1])
                /\ UNCHANGED <<config, cache, errors, pc, cur, ptask, ctask, stored>>
           ELSE \E raises \in UserIdRaises(call.username) :
                  IF raises
                  THEN /\ Return(call, FALSE, FALSE, <<NoneVal, NoneVal>>, st)
                       /\ errors' = IF call.username \in ExistingUsers
                                    THEN errors + 1 ELSE errors
                       /\ UNCHANGED <<config, cache, pc, cur, ptask, ctask, stored>>
                  ELSE /\ pc' = "fetching"
                       /\ cur' = call
                       /\ ptask' = QueuedTask
                       /\ ctask' = QueuedTask
                       /\ stats' = st
                       /\ UNCHANGED <<config, cache, now, errors, last, stored,
                                      firstReport>>

\* a direct call parallel_scrape_user_data(username, post_limit, comment_limit)
Scrape(username, post_limit, comment_limit) ==
    Enter([op |-> "scrape", username |-> username,
           post_limit |-> post_limit, comment_limit |-> comment_limit], stats)

\* analyze_user(username): start_time is stamped, then the data is scraped with
\* the default limits
AnalyzeUser(username) ==
    Enter([op |-> "analyze_user", username |-> username,
           post_limit |-> DefaultLimit, comment_limit |-> DefaultLimit],
          [stats EXCEPT !.start_time = Some(now)])

\* both futures have returned: the counts go to self.stats, the pair to the
\* cache, and the call returns (analyze_user after its analysis)
Join ==
    /\ pc = "fetching"
    /\ JoinReady
    /\ LET result == FetchResult
           key == CacheKey(cur.username, cur.post_limit, cur.comment_limit)
       IN  /\ cache' = CacheAfterFetch(cache, key, result)
           /\ stored' = IF config.CACHE_ENABLED
                        THEN DictPut(stored, <<cur.username, cur.post_limit,
                                               cur.comment_limit>>, result)
                        ELSE stored
           /\ Return(cur, FALSE, TRUE, result,
                     StatsAfterFetch(stats, result[1].val, result[2].val))
    /\ pc' = "idle"
    /\ cur' = NoCall
    /\ ptask' = NoTask
    /\ ctask' = NoTask
    /\ UNCHANGED <<config, errors, calls, fin, fout>>

\* main, choice 4: analyzer.cache.clear()
ClearCache ==
    /\ pc = "idle"
    /\ cache # <<>>
    /\ cache' = <<>>
    /\ stored' = <<>>
    /\ UNCHANGED <<config, stats, now, errors, pc, cur, ptask, ctask, last,
                   firstReport, calls, fin, fout>>

Next ==
    \/ \E u \in Usernames : AnalyzeUser(u)
    \/ \E args \in ScrapeArgs : Scrape(args[1], args[2], args[3])
    \/ PostsTaskStep
    \/ CommentsTaskStep
    \/ Join
    \/ ClearCache

Spec == Init /\ [][Next]_vars

(***************************************************************************)
(* The analysis pipeline on its own: the functions ultra_fast_analysis     *)
(* calls, each applied to inputs drawn from bounded sets.                  *)
(***************************************************************************)

\* copies of the repeated comment in the largest sample input
MaxRepeat == 13
\* items per sequence in the largest input of the behavioral classifier
MaxItems == 100

\* n copies of item
Replicate(item, n) == [i \in 1..n |-> item]

\* sample comment texts; a sample input holds a subset of them, in this order
Fragments ==
    << "r/aa r/bb r/cc r/aa",
       "r/dd r/ee R/FF also r/bb",
       "Game play game steam",
       "app tv app tv app tv bank bank bank",
       "gym gym gym learn learn learn",
       "trip trip trip eat eat eat art art art",
       "team match team season r/gg r/hh" >>

SampleUrl == "https://www.reddit.com/r/x/1"
SamplePost == <<"Title: On code\nBody: I love programming and algorithms", SampleUrl>>
SampleComment == <<"Lots of Data", SampleUrl>>

\* the items of the fragments selected by `mask`, in the order of Fragments
RECURSIVE SelectFragments(_, _)
SelectFragments(mask, i) ==
    IF i > Len(Fragments) THEN <<>>
    ELSE (IF i \in mask THEN << <<Fragments[i], SampleUrl>> >> ELSE <<>>)
         \o SelectFragments(mask, i + 1)

\* comment texts of the scenarios: repeated and mixed-case community names, a
\* match inside a word, a match that swallows the next marker
ScenarioTexts ==
    {"r/golang r/golang r/rust",
     "see r/Rust then r/golang, r/rust and for/all",
     "r/r/golang r/go r/golang_2 r/go"}

\* inputs of the text-scoring functions
PipelineInputs ==
    {[posts |-> <<>>, comments |-> << <<text, SampleUrl>> >>] : text \in ScenarioTexts}
    \cup
    {[posts |-> <<>>, comments |-> SelectFragments(mask, 1)] :
        mask \in SUBSET (1..Len(Fragments))}
    \cup {[posts |-> Replicate(SamplePost, p), comments |-> Replicate(SampleComment, c)] :
             p \in 0..1, c \in 0..MaxRepeat}

\* inputs of the count classifiers
CountInputs ==
    {[posts |-> Replicate(SamplePost, p), comments |-> Replicate(SampleComment, c)] :
        p \in 0..MaxItems, c \in 0..MaxItems}

\* the analyzer is constructed and not called
Standby ==
    /\ config = [CACHE_ENABLED |-> TRUE]
    /\ Constructed
    /\ fout = NoOutput

\* personality_traits = self._analyze_personality_fast(combined_text, posts, comments)
ApplyPersonality ==
    /\ fout = NoOutput
    /\ LET text == CombinedText(fin.posts, fin.comments)
       IN  fout' = [fn |-> "_analyze_personality_fast", hits |-> TraitHits(text),
                    val |-> AnalyzePersonalityFast(text)]
    /\ UNCHANGED <<config, cache, stats, now, errors, pc, cur, ptask, ctask, last,
                   stored, firstReport, calls, fin>>

\* interests = self._extract_interests_fast(combined_text, all_texts)
ApplyInterests ==
    /\ fout = NoOutput
    /\ LET text == CombinedText(fin.posts, fin.comments)
           subs == FindSubreddits(text)
           unsorted == InterestsUnsorted(subs, TopicHits(text))
       IN  fout' = [fn |-> "_extract_interests_fast", subs |-> subs,
                    unsorted |-> unsorted, val |-> RankInterests(unsorted)]
    /\ UNCHANGED <<config, cache, stats, now, errors, pc, cur, ptask, ctask, last,
                   stored, firstReport, calls, fin>>

\* communication_style = self._analyze_communication_fast(posts, comments)
ApplyCommunication ==
    /\ fout = NoOutput
    /\ fout' = [fn |-> "_analyze_communication_fast",
                val |-> AnalyzeCommunicationFast(fin.posts, fin.comments)]
    /\ UNCHANGED <<config, cache, stats, now, errors, pc, cur, ptask, ctask, last,
                   stored, firstReport, calls, fin>>

\* behavioral_patterns = self._extract_behavioral_patterns(posts, comments)
ApplyBehavioral ==
    /\ fout = NoOutput
    /\ fout' = [fn |-> "_extract_behavioral_patterns",
                val |-> ExtractBehavioralPatterns(fin.posts, fin.comments)]
    /\ UNCHANGED <<config, cache, stats, now, errors, pc, cur, ptask, ctask, last,
                   stored, firstReport, calls, fin>>

\* report = self.ultra_fast_analysis(posts, comments, username)
ApplyAnalysis ==
    /\ fout = NoOutput
    /\ fout' = [fn |-> "ultra_fast_analysis",
                profiles |-> Profiles(fin.posts, fin.comments),
                val |-> UltraFastAnalysis(fin.posts, fin.comments, "kim", stats, now)]
    /\ UNCHANGED <<config, cache, stats, now, errors, pc, cur, ptask, ctask, last,
                   stored, firstReport, calls, fin>>

InitPipeline == Standby /\ fin \in PipelineInputs

NextPipeline ==
    \/ ApplyPersonality
    \/ ApplyInterests
    \/ ApplyCommunication
    \/ ApplyBehavioral
    \/ ApplyAnalysis

SpecPipeline == InitPipeline /\ [][NextPipeline]_vars

\* "engagement_style": self._determine_engagement_style(posts, comments)
ApplyEngagementStyle ==
    /\ fout = NoOutput
    /\ fout' = [fn |-> "_determine_engagement_style",
                val |-> DetermineEngagementStyle(fin.posts, fin.comments)]
    /\ UNCHANGED <<config, cache, stats, now, errors, pc, cur, ptask, ctask, last,
                   stored, firstReport, calls, fin>>

InitBehavior == Standby /\ fin \in CountInputs

NextBehavior ==
    \/ ApplyBehavioral
    \/ ApplyEngagementStyle

SpecBehavior == InitBehavior /\ [][NextBehavior]_vars

(***************************************************************************)
(* Trait scoring and rendering on their own, applied to vectors of         *)
(* per-trait keyword occurrence counts.                                    *)
(***************************************************************************)

\* the largest keyword count of one trait in a sample vector
MaxHits == 14

\* count vectors with at most two traits having occurrences
HitVectors ==
    {[i \in 1..Len(personality_indicators) |->
         IF i = a THEN x ELSE IF i = b THEN y ELSE 0] :
        a \in 1..Len(personality_indicators), b \in 1..Len(personality_indicators),
        x \in 0..MaxHits, y \in 0..MaxHits}

\* the scoring loop of _analyze_personality_fast on the counts
ScoreTraits ==
    /\ fout = NoOutput
    /\ fout' = [fn |-> "_analyze_personality_fast", hits |-> fin.hits,
                val |-> TraitsFromHits(fin.hits, 1, <<>>)]
    /\ UNCHANGED <<config, cache, stats, now, errors, pc, cur, ptask, ctask, last,
                   stored, firstReport, calls, fin>>

\* _format_traits on the traits scored from the counts
RenderTraits ==
    /\ fout = NoOutput
    /\ LET traits == TraitsFromHits(fin.hits, 1, <<>>)
       IN  fout' = [fn |-> "_format_traits", hits |-> fin.hits, traits |-> traits,
                    val |-> FormatTraits(traits)]
    /\ UNCHANGED <<config, cache, stats, now, errors, pc, cur, ptask, ctask, last,
                   stored, firstReport, calls, fin>>

InitTraits == Standby /\ fin \in {[hits |-> v] : v \in HitVectors}

NextTraits ==
    \/ ScoreTraits
    \/ RenderTraits

SpecTraits == InitTraits /\ [][NextTraits]_vars

(***************************************************************************)
(* Properties                                                              *)
(***************************************************************************)

\* the fetch returned an empty posts list and an empty comments list
BothEmpty(result) ==
    /\ ~IsNone(result[1]) /\ ~IsNone(result[2])
    /\ result[1].val = <<>> /\ result[2].val = <<>>

\* C1: in analyze_user, whenever the fetch stage yields an empty posts
\* sequence and an empty comments sequence, ultra_fast_analysis is not invoked
\* and the caller receives the "no data" outcome (None) instead of a report.
C1_EmptyFetchIsNoData ==
    (last.op = "analyze_user" /\ BothEmpty(last.result))
        => (~last.analysed /\ IsNone(last.report))

\* a report with its generation timestamp blanked
WithoutTimestamp(report) == [report EXCEPT !.generated = 0]

\* C2: the report made for (username, posts, comments) is, but for its
\* generation timestamp, the same as the first report made for that input,
\* whatever the analyzer did in between: nothing else in it depends on the
\* analyzer's state.
C2_ReportDependsOnInputOnly ==
    last.analysed =>
        LET input == <<last.username, last.result[1].val, last.result[2].val>>
        IN  /\ input \in DOMAIN firstReport
            /\ WithoutTimestamp(last.report.val) = WithoutTimestamp(firstReport[input])

\* the listings the last call iterated
LastSubmissions == Limited(RemoteSubmissions(last.username), last.post_limit)
LastComments == Limited(RemoteComments(last.username), last.comment_limit)

\* a stream that did not raise has iterated its whole listing and returns all
\* of its qualifying items
OtherStreamComplete ==
    /\ ~last.ptask.raised =>
          last.result[1].val = PostsAfter(LastSubmissions, Len(LastSubmissions))
    /\ ~last.ctask.raised =>
          last.result[2].val = CommentsAfter(LastComments, Len(LastComments))

\* C3, as stated: when fetching one of the two streams raises at any point of
\* its iteration, that stream resolves to an empty sequence, and the other
\* stream is not aborted: its collected items are still returned.
C3_RaisedStreamIsEmpty ==
    last.fetched =>
        /\ last.ptask.raised => last.result[1].val = <<>>
        /\ last.ctask.raised => last.result[2].val = <<>>
        /\ OtherStreamComplete

\* C3, amended: when fetching one of the two streams raises at any point of its
\* iteration, that stream resolves to the qualifying items of the entries it
\* had iterated before the error (empty only if there were none), and the other
\* stream is not aborted: its collected items are still returned.
C3_RaisedStreamKeepsCollected ==
    last.fetched =>
        /\ last.result[1].val = PostsAfter(LastSubmissions, last.ptask.idx)
        /\ last.result[2].val = CommentsAfter(LastComments, last.ctask.idx)
        /\ OtherStreamComplete

\* a fetch whose comments stream raised after collecting an item while the
\* posts stream ran to its end
C3_Witness ==
    /\ last.fetched
    /\ last.ctask.raised /\ last.ctask.idx > 0 /\ last.result[2].val # <<>>
    /\ ~last.ptask.raised /\ last.result[1].val # <<>>

\* a task step appends to its own buffer and touches nothing else
OwnBufferOnly(task, taskAfter, other, otherAfter) ==
    /\ otherAfter = other
    /\ Len(taskAfter.buf) >= Len(task.buf)
    /\ SubSeq(taskAfter.buf, 1, Len(task.buf)) = task.buf
    /\ UNCHANGED <<cache, stats, last, stored, firstReport, now>>

\* C4: in every interleaving of the posts task and the comments task, the
\* fetch returns (and the analysis starts) only after both tasks have
\* completed, the analysis is made of exactly the sequences the two tasks
\* returned, and a step of one task writes its own buffer only.
C4_AnalysisAfterBothTasks ==
    [][ /\ (pc = "fetching" /\ pc' = "idle") =>
              /\ ptask.pc = "done" /\ ctask.pc = "done"
              /\ last'.fetched
              /\ last'.result = <<Some(ptask.buf), Some(ctask.buf)>>
              /\ cur.op = "analyze_user" =>
                    /\ last'.analysed
                    /\ last'.report =
                          Some(AnalyseFetched(ptask.buf, ctask.buf, cur.username,
                                              StatsAfterFetch(stats, ptask.buf, ctask.buf),
                                              now))
        /\ (pc = "fetching" /\ pc' = "fetching" /\ ptask' # ptask) =>
              OwnBufferOnly(ptask, ptask', ctask, ctask')
        /\ (pc = "fetching" /\ pc' = "fetching" /\ ctask' # ctask) =>
              OwnBufferOnly(ctask, ctask', ptask, ptask')
      ]_vars

\* an analysis made after a fetch in which both tasks returned items
C4_Witness ==
    /\ last.fetched /\ last.analysed
    /\ last.ptask.pc = "done" /\ last.ctask.pc = "done"
    /\ Len(last.result[1].val) > 0 /\ Len(last.result[2].val) > 1

\* the (username, post_limit, comment_limit) of a call
Triple(call) == <<call.username, call.post_limit, call.comment_limit>>

\* the raw pairs a fetch can produce
RawPairs == {<<Some(p), Some(c)>> : p \in FetchablePosts, c \in FetchableComments}

\* C5: with caching enabled, once a fetch has stored a pair for
\* (username, post_limit, comment_limit), every later call with that triple,
\* until the cache is cleared, returns exactly that pair without starting a
\* fetch task; a call returns an entry only if it was stored for its own
\* triple; and the cache holds raw (posts, comments) pairs only.
C5_CacheReturnsStoredPair ==
    [][ /\ calls' = calls + 1 =>
              LET call == IF pc' = "fetching" THEN cur' ELSE last'
              IN  /\ (config.CACHE_ENABLED /\ Triple(call) \in DOMAIN stored) =>
                        /\ pc' = "idle" /\ ptask' = NoTask /\ ctask' = NoTask
                        /\ last'.hit /\ ~last'.fetched
                        /\ last'.result = stored[Triple(call)]
                  /\ (pc' = "idle" /\ last'.hit) =>
                        /\ config.CACHE_ENABLED
                        /\ Triple(call) \in DOMAIN stored
                        /\ last'.result = stored[Triple(call)]
        /\ \A key \in DOMAIN cache' : cache'[key] \in RawPairs
      ]_vars

\* a cache hit while the cache holds the pairs of two triples
C5_Witness ==
    /\ last.hit
    /\ Cardinality(DOMAIN stored) = 2
    /\ Triple(last) \in DOMAIN stored
    /\ last.result = stored[Triple(last)]

\* C6: every trait _analyze_personality_fast emits has a confidence between 0
\* and 100 (here in tenths: 0 to 1000), however many keyword occurrences the
\* text contains.
C6_ConfidenceWithinBounds ==
    fout.fn = "_analyze_personality_fast" =>
        \A i \in 1..Len(fout.val) : 0 <= fout.val[i][2] /\ fout.val[i][2] <= 1000

\* a trait whose keyword occurrences push score * 8 over 100 is emitted at 100
C6_Witness ==
    /\ fout.fn = "_analyze_personality_fast"
    /\ \E i \in 1..Len(personality_indicators) :
          /\ TraitScore10(fout.hits[i], personality_indicators[i].weight10) * 8 > 1000
          /\ HasKey(fout.val, personality_indicators[i].trait)
          /\ Lookup(fout.val, personality_indicators[i].trait) = 1000

\* the labels of the topic table
TopicLabels == {topic_keywords[i].topic : i \in 1..Len(topic_keywords)}

\* the position of a topic in the topic table
TopicIndex(label) == CHOOSE i \in 1..Len(topic_keywords) : topic_keywords[i].topic = label

\* the first occurrence of a community label "r/<name>" among the matches
FirstOccurrence(subs, label) ==
    SetMin({i \in 1..Len(subs) : "r/" \o subs[i] = label})

\* label a is inserted before label b: communities by first occurrence, then
\* topics in the order of the table
InsertedBefore(subs, a, b) ==
    IF a \in TopicLabels
    THEN b \in TopicLabels /\ TopicIndex(a) < TopicIndex(b)
    ELSE b \in TopicLabels \/ FirstOccurrence(subs, a) < FirstOccurrence(subs, b)

\* C7: the mapping _extract_interests_fast returns has at most 15 entries,
\* every score is a positive integer, the entries are in non-increasing score
\* order, entries of equal score keep their insertion order (communities by
\* first occurrence, then topics in table order), and no entry left out has a
\* score higher than one kept.
C7_InterestsRanked ==
    fout.fn = "_extract_interests_fast" =>
        LET kept == fout.val
            all == fout.unsorted
        IN  /\ Len(kept) <= 15
            /\ \A i \in 1..Len(kept) :
                  /\ kept[i][2] \in Nat \ {0}
                  /\ HasKey(all, kept[i][1])
                  /\ Lookup(all, kept[i][1]) = kept[i][2]
            /\ \A i, j \in 1..Len(kept) :
                  i < j =>
                     /\ kept[i][1] # kept[j][1]
                     /\ kept[i][2] >= kept[j][2]
                     /\ kept[i][2] = kept[j][2] =>
                           InsertedBefore(fout.subs, kept[i][1], kept[j][1])
            /\ \A i \in 1..Len(all) :
                  ~HasKey(kept, all[i][1]) =>
                     /\ Len(kept) = 15
                     /\ \A j \in 1..Len(kept) : all[i][2] <= kept[j][2]

\* more than 15 labels scored, entries of equal score among the 15 kept
C7_Witness ==
    /\ fout.fn = "_extract_interests_fast"
    /\ Len(fout.unsorted) > 15
    /\ Len(fout.val) = 15
    /\ \E i, j \in 1..15 :
          /\ i < j /\ fout.val[i][2] = fout.val[j][2]
          /\ fout.val[i][1] \notin TopicLabels /\ fout.val[j][1] \notin TopicLabels
    /\ \E i \in 1..15 : fout.val[i][2] > fout.val[15][2]

\* a preview of at most 100 characters, with an ellipsis if cut
Preview(text) == IF Len(text) > 100 THEN SubSeq(text, 1, 100) \o "..." ELSE text

\* the citation lines of one sequence: min(n, 5) previews with their source
\* URLs in fetch order, and a line for the n - 5 others
CitationLines(items) ==
    [k \in 1..Min(Len(items), 5) |-> [preview |-> Preview(items[k][1]), url |-> items[k][2]]]
    \o (IF Len(items) > 5 THEN <<[more |-> Len(items) - 5]>> ELSE <<>>)

\* C8: the report contains a citations section showing, for the posts and for
\* the comments, min(n, 5) previews in fetch order (cut to 100 characters with
\* an ellipsis, each followed by its source URL) and, when n > 5, a line for
\* the n - 5 others: 5 previews and "3 more" for 8 comments.
C8_ReportHasCitations ==
    fout.fn = "ultra_fast_analysis" =>
        \E i \in 1..Len(fout.val.sections) :
            /\ Count(Lower(fout.val.sections[i].title), "citation") > 0
            /\ fout.val.sections[i].body =
                  [posts |-> CitationLines(fin.posts),
                   comments |-> CitationLines(fin.comments)]

\* the section of a report with the given title
Section(report, title) ==
    report.sections[CHOOSE i \in 1..Len(report.sections) : report.sections[i].title = title]

\* C9: for posts = [] and comments = [] the pipeline completes: the
\* communication profile is empty, the trait and interest mappings are empty,
\* the behavioral classifier returns the lowest engagement band, and the
\* traits, interests, communication and behavioral sections of the report
\* render their "no data" text, absent profile keys as "Unknown" / 0.
C9_EmptyInputFallbacks ==
    (fout.fn = "ultra_fast_analysis" /\ fin.posts = <<>> /\ fin.comments = <<>>) =>
        /\ fout.profiles.communication = <<>>
        /\ fout.profiles.traits = <<>>
        /\ fout.profiles.interests = <<>>
        /\ Lookup(fout.profiles.patterns, "engagement_level") = EngagementBands[1]
        /\ Section(fout.val, "PERSONALITY TRAITS").body = <<Fallback(NoTraitsText)>>
        /\ Section(fout.val, "INTERESTS & COMMUNITIES").body = <<Fallback(NoInterestsText)>>
        /\ Section(fout.val, "COMMUNICATION STYLE").body = CommunicationLines(<<>>)
        /\ Section(fout.val, "BEHAVIORAL PATTERNS").body = BehavioralLines(<<>>)

\* C10: for item counts with |posts| > 2 * |comments|,
\* _extract_behavioral_patterns yields content_preference "Posts" and
\* interaction_pattern "Content Creator"; for a total activity of 95 or more
\* (90 posts and 5 comments among them) engagement_level is the highest band.
C10_PostHeavyAndHighestBand ==
    fout.fn = "_extract_behavioral_patterns" =>
        LET p == Len(fin.posts)
            c == Len(fin.comments)
        IN  /\ p > 2 * c =>
                  /\ Lookup(fout.val, "content_preference") = "Posts"
                  /\ Lookup(fout.val, "interaction_pattern") = "Content Creator"
            /\ p + c >= 95 =>
                  Lookup(fout.val, "engagement_level") = EngagementBands[Len(EngagementBands)]

\* the classifier applied to 90 posts and 5 comments
C10_Witness ==
    /\ fout.fn = "_extract_behavioral_patterns"
    /\ Len(fin.posts) = 90 /\ Len(fin.comments) = 5
    /\ Lookup(fout.val, "content_preference") = "Posts"
    /\ Lookup(fout.val, "interaction_pattern") = "Content Creator"
    /\ Lookup(fout.val, "engagement_level") = "Highly Active"

\* the community names matched in the text: the distinct values of subs
CommunityNames(subs) == {subs[i] : i \in 1..Len(subs)}

\* how many times the name was matched
MatchCount(subs, name) == Cardinality({i \in 1..Len(subs) : subs[i] = name})

\* the position of a label in a mapping that holds it
PositionOf(d, label) == CHOOSE i \in 1..Len(d) : d[i][1] = label

\* C11: each distinct community name matched k >= 1 times as "r/<name>" gets
\* the entry "r/<name>" with score 3 * k before the top-15 cut, and a community
\* with more occurrences is ranked above one with fewer; for
\* "r/golang r/golang r/rust" the mapping is r/golang: 6 then r/rust: 3.
C11_CommunityScores ==
    fout.fn = "_extract_interests_fast" =>
        LET names == CommunityNames(fout.subs)
            sorted == SortedByValueDesc(fout.unsorted)
        IN  /\ \A name \in names :
                  /\ HasKey(fout.unsorted, "r/" \o name)
                  /\ Lookup(fout.unsorted, "r/" \o name) = 3 * MatchCount(fout.subs, name)
            /\ \A a, b \in names :
                  MatchCount(fout.subs, a) > MatchCount(fout.subs, b) =>
                     /\ PositionOf(sorted, "r/" \o a) < PositionOf(sorted, "r/" \o b)
                     /\ HasKey(fout.val, "r/" \o b) =>
                           /\ HasKey(fout.val, "r/" \o a)
                           /\ PositionOf(fout.val, "r/" \o a) < PositionOf(fout.val, "r/" \o b)
            /\ fin.comments = << <<"r/golang r/golang r/rust", SampleUrl>> >> =>
                  fout.val = << <<"r/golang", 6>>, <<"r/rust", 3>> >>

\* the scenario text has been scored
C11_Witness ==
    /\ fout.fn = "_extract_interests_fast"
    /\ fin.posts = <<>>
    /\ fin.comments = << <<"r/golang r/golang r/rust", SampleUrl>> >>
    /\ fout.subs = <<"golang", "golang", "rust">>
    /\ fout.val = << <<"r/golang", 6>>, <<"r/rust", 3>> >>

\* C12: for every trait and every vector of keyword occurrence counts, the
\* trait is emitted if and only if score = count * weight is strictly greater
\* than 2 (20 tenths), its confidence is then min(score * 8, 100), and a trait
\* at or below the threshold is absent, not present with value 0.
C12_EmittedIffAboveThreshold ==
    fout.fn = "_analyze_personality_fast" =>
        /\ \A i \in 1..Len(personality_indicators) :
              LET trait == personality_indicators[i].trait
                  score10 == fout.hits[i] * personality_indicators[i].weight10
              IN  /\ HasKey(fout.val, trait) <=> score10 > 20
                  /\ HasKey(fout.val, trait) =>
                        Lookup(fout.val, trait) =
                           (IF score10 * 8 < 1000 THEN score10 * 8 ELSE 1000)
        /\ \A k \in 1..Len(fout.val) :
              /\ fout.val[k][2] > 0
              /\ \E i \in 1..Len(personality_indicators) :
                    personality_indicators[i].trait = fout.val[k][1]

\* "Social" at a score of exactly 2 is absent while "Humorous" at 2.7 is
\* emitted with 21.6
C12_Witness ==
    /\ fout.fn = "_analyze_personality_fast"
    /\ fout.hits[3] = 2 /\ fout.hits[6] = 3
    /\ fout.val = << <<"Humorous", 216>> >>

\* the position of a trait in the trait table
TraitIndex(trait) ==
    CHOOSE i \in 1..Len(personality_indicators) : personality_indicators[i].trait = trait

\* C13: _format_traits renders every emitted trait once, in descending
\* confidence order, and two traits of equal confidence (both capped at 100,
\* or both at 28.8) appear in the order of the trait table.
C13_TraitsRenderedInOrder ==
    (fout.fn = "_format_traits" /\ fout.traits # <<>>) =>
        /\ Len(fout.val) = Len(fout.traits)
        /\ \A i \in 1..Len(fout.val) : HasKey(fout.traits, fout.val[i].trait)
        /\ \A i, j \in 1..Len(fout.val) :
              i < j =>
                 LET ci == Lookup(fout.traits, fout.val[i].trait)
                     cj == Lookup(fout.traits, fout.val[j].trait)
                 IN  /\ ci >= cj
                     /\ ci = cj => TraitIndex(fout.val[i].trait) < TraitIndex(fout.val[j].trait)

\* C14: whenever an analyze_user call has returned a report, cache hit or
\* not, stats['total_posts'] and stats['total_comments'] are the numbers of
\* posts and comments that call analysed.
C14_StatsMatchAnalysedInput ==
    (last.op = "analyze_user" /\ last.analysed) =>
        /\ stats.total_posts = Len(last.result[1].val)
        /\ stats.total_comments = Len(last.result[2].val)

\* C15, as stated: for every pair of item counts, not both zero,
\* engagement_style is "Content Creator" if and only if interaction_pattern is
\* "Content Creator".
C15_ContentCreatorLabelsAgree ==
    (fout.fn = "_determine_engagement_style"
       /\ Len(fin.posts) + Len(fin.comments) > 0) =>
        (fout.val = "Content Creator"
            <=> AnalyzeInteractionPattern(fin.posts, fin.comments) = "Content Creator")

\* C15, amended: for every pair of item counts, not both zero,
\* engagement_style is "Content Creator" exactly when posts > comments and
\* interaction_pattern is "Content Creator" exactly when posts > 2 * comments;
\* so interaction_pattern "Content Creator" implies engagement_style
\* "Content Creator", and not conversely.
C15_ContentCreatorLabelsNested ==
    (fout.fn = "_determine_engagement_style"
       /\ Len(fin.posts) + Len(fin.comments) > 0) =>
        LET p == Len(fin.posts)
            c == Len(fin.comments)
            interaction == AnalyzeInteractionPattern(fin.posts, fin.comments)
        IN  /\ fout.val = "Content Creator" <=> p > c
            /\ interaction = "Content Creator" <=> p > 2 * c
            /\ interaction = "Content Creator" => fout.val = "Content Creator"

\* 3 posts and 2 comments: engagement_style is "Content Creator" while
\* interaction_pattern is "Balanced Contributor"
C15_Witness ==
    /\ fout.fn = "_determine_engagement_style"
    /\ Len(fin.posts) = 3 /\ Len(fin.comments) = 2
    /\ fout.val = "Content Creator"
    /\ AnalyzeInteractionPattern(fin.posts, fin.comments) = "Balanced Contributor"

\* the pair a fetch of the last call's listings returns when no stream raises
LastCompletePair ==
    <<Some(PostsAfter(LastSubmissions, Len(LastSubmissions))),
      Some(CommentsAfter(LastComments, Len(LastComments)))>>

\* C16: the cache only stores the results of fetches in which neither stream
\* raised: after a fetch in which a stream failed the key is not in the cache,
\* and a call answered from the cache never returns a degraded result.
C16_CacheHoldsCleanFetchesOnly ==
    /\ (last.fetched /\ (last.ptask.raised \/ last.ctask.raised)) =>
          CacheKey(last.username, last.post_limit, last.comment_limit) \notin DOMAIN cache
    /\ last.hit => last.result = LastCompletePair

====
